---- MODULE Spec2Model ----
(***************************************************************************)
(* Model of arcsii's live change-detection pipeline                        *)
(* (internal/watcher/watcher.go) and of the part of the terminal UI        *)
(* (internal/ui/model.go) that starts, drains and stops it.                *)
(*                                                                         *)
(* Paths, names and file contents are strings; the string functions of    *)
(* the Go library the code calls (strings.Contains, strings.HasPrefix,     *)
(* filepath.Base, ...) are operators computed character by character.      *)
(***************************************************************************)
EXTENDS Integers, Sequences, FiniteSets, TLC

(***************************************************************************)
(* String helpers: the Go library functions the watcher calls.             *)
(***************************************************************************)

\* strings.Contains(s, sub)
Contains(s, sub) ==
    \E i \in 1..(Len(s) - Len(sub) + 1) : SubSeq(s, i, i + Len(sub) - 1) = sub

\* strings.HasPrefix(s, p)
HasPrefix(s, p) == Len(s) >= Len(p) /\ SubSeq(s, 1, Len(p)) = p

\* strings.HasSuffix(s, p)
HasSuffix(s, p) == Len(s) >= Len(p) /\ SubSeq(s, Len(s) - Len(p) + 1, Len(s)) = p

\* index of the last "/" of s at or before i, 0 when there is none
RECURSIVE LastSlashFrom(_, _)
LastSlashFrom(s, i) ==
    IF i = 0 \/ SubSeq(s, i, i) = "/" THEN i ELSE LastSlashFrom(s, i - 1)

\* index of the last "/" of s, 0 when there is none
LastSlash(s) == LastSlashFrom(s, Len(s))

\* s without its trailing "/" characters
RECURSIVE StripTrailingSlashes(_)
StripTrailingSlashes(s) ==
    IF Len(s) > 0 /\ SubSeq(s, Len(s), Len(s)) = "/"
    THEN StripTrailingSlashes(SubSeq(s, 1, Len(s) - 1))
    ELSE s

\* filepath.Base(path): the last element; "." for the empty path, "/" for
\* a path of separators only
Base(path) ==
    IF path = "" THEN "."
    ELSE LET q == StripTrailingSlashes(path)
         IN  IF q = "" THEN "/" ELSE SubSeq(q, LastSlash(q) + 1, Len(q))

\* filepath.Dir(path) for a clean absolute path
Dir(path) ==
    IF LastSlash(path) <= 1 THEN "/" ELSE SubSeq(path, 1, LastSlash(path) - 1)

(***************************************************************************)
(* detectGitOperation: the classifier of metadata paths.                   *)
(* "" is the code's "not an interesting git operation".                    *)
(***************************************************************************)

\* watcher.go:298  name == "HEAD" && !strings.Contains(path, "logs")
IsCheckoutHead(path, name) == name = "HEAD" /\ ~Contains(path, "logs")

\* the lock rule switched off
IsLockFileNever(name) == FALSE

\* watcher.go:257  strings.HasSuffix(name, ".lock")
IsLockFile(name) == HasSuffix(name, ".lock")

detectGitOperation(path, name) ==
    IF IsLockFile(name) THEN ""
    ELSE IF name = "COMMIT_EDITMSG" \/ name = "MERGE_MSG" THEN "commit"
    ELSE IF Contains(path, "refs/heads") \/ Contains(path, "logs/refs/heads")
         THEN "commit"
    ELSE IF Contains(path, "refs/remotes") \/ Contains(path, "logs/refs/remotes")
         THEN "push"
    ELSE IF name = "FETCH_HEAD" THEN "fetch"
    ELSE IF name = "ORIG_HEAD" THEN "pull"
    ELSE IF name = "MERGE_HEAD" THEN "merge"
    ELSE IF Contains(path, "rebase-merge") \/ Contains(path, "rebase-apply")
         THEN "rebase"
    ELSE IF Contains(path, "refs/stash") \/ name = "stash" THEN "stash"
    ELSE IF IsCheckoutHead(path, name) THEN "checkout"
    ELSE ""

(***************************************************************************)
(* getFilePreview and isBinary.  The content of a file is a string; NulByte *)
(* stands for the byte 0x00, which has no string literal.                  *)
(***************************************************************************)
NulByte == "@"

BinaryProbeLen == 512
PreviewWidth == 60
PreviewKeep == 57
PreviewLines == 3

\* a probe one byte shorter
isBinaryShortProbe(data) ==
    LET probe == IF Len(data) > BinaryProbeLen - 1
                 THEN SubSeq(data, 1, BinaryProbeLen - 1) ELSE data
    IN  Contains(probe, NulByte)

\* watcher.go:242-252
isBinary(data) ==
    LET probe == IF Len(data) > BinaryProbeLen
                 THEN SubSeq(data, 1, BinaryProbeLen) ELSE data
    IN  Contains(probe, NulByte)

\* index of the first "\n" of s at or after i, 0 when there is none
RECURSIVE FirstNewlineFrom(_, _)
FirstNewlineFrom(s, i) ==
    IF i > Len(s) THEN 0
    ELSE IF SubSeq(s, i, i) = "\n" THEN i ELSE FirstNewlineFrom(s, i + 1)

\* index of the first "\n" of s, 0 when there is none
FirstNewline(s) == FirstNewlineFrom(s, 1)

\* strings.Split(s, "\n")
RECURSIVE SplitLines(_)
SplitLines(s) ==
    IF FirstNewline(s) = 0 THEN <<s>>
    ELSE <<SubSeq(s, 1, FirstNewline(s) - 1)>>
         \o SplitLines(SubSeq(s, FirstNewline(s) + 1, Len(s)))

IsSpace(c) == c \in {" ", "\t", "\n", "\r", "\f"}

\* strings.TrimSpace(s)
RECURSIVE TrimSpace(_)
TrimSpace(s) ==
    IF Len(s) = 0 THEN s
    ELSE IF IsSpace(SubSeq(s, 1, 1)) THEN TrimSpace(SubSeq(s, 2, Len(s)))
    ELSE IF IsSpace(SubSeq(s, Len(s), Len(s)))
         THEN TrimSpace(SubSeq(s, 1, Len(s) - 1))
    ELSE s

\* watcher.go:231-233
Truncate(line) ==
    IF Len(line) > PreviewWidth THEN SubSeq(line, 1, PreviewKeep) \o "..." ELSE line

\* the element of a one-element set; binds a local once
The(S) == CHOOSE x \in S : TRUE

\* watcher.go:227-236: the loop from the last line down, preview built by
\* prepending; line is the local of the loop body
RECURSIVE PreviewScan(_, _, _, _)
PreviewScan(lines, i, preview, numLines) ==
    IF i < 1 \/ Len(preview) >= numLines THEN preview
    ELSE The({IF line # ""
              THEN PreviewScan(lines, i - 1, <<Truncate(line)>> \o preview, numLines)
              ELSE PreviewScan(lines, i - 1, preview, numLines) :
              line \in {TrimSpace(lines[i])}})

\* a preview that reports the failure of the read
getFilePreviewReportsFailure(rd, numLines) ==
    IF ~rd.ok THEN <<"[unreadable]">>
    ELSE IF isBinary(rd.data) THEN <<"[binary file]">>
    ELSE The({PreviewScan(lines, Len(lines), <<>>, numLines) :
              lines \in {SplitLines(rd.data)}})

\* watcher.go:212-239; rd is the outcome of os.ReadFile, <<>> is the nil slice
getFilePreview(rd, numLines) ==
    IF ~rd.ok THEN <<>>
    ELSE IF isBinary(rd.data) THEN <<"[binary file]">>
    ELSE The({PreviewScan(lines, Len(lines), <<>>, numLines) :
              lines \in {SplitLines(rd.data)}})

(***************************************************************************)
(* filepath.Rel for clean absolute paths.                                  *)
(***************************************************************************)
\* the non-empty elements of a path
RECURSIVE Segs(_)
Segs(p) ==
    IF p = "" THEN <<>>
    ELSE IF SubSeq(p, 1, 1) = "/" THEN Segs(SubSeq(p, 2, Len(p)))
    ELSE LET idx == {i \in 1..Len(p) : SubSeq(p, i, i) = "/"}
             cut == IF idx = {} THEN Len(p) + 1
                    ELSE CHOOSE i \in idx : \A j \in idx : i <= j
         IN  <<SubSeq(p, 1, cut - 1)>> \o Segs(SubSeq(p, cut, Len(p)))

RECURSIVE JoinSegs(_)
JoinSegs(ss) ==
    IF ss = <<>> THEN ""
    ELSE IF Len(ss) = 1 THEN ss[1]
    ELSE ss[1] \o "/" \o JoinSegs(Tail(ss))

RECURSIVE CommonLen(_, _)
CommonLen(a, b) ==
    IF a = <<>> \/ b = <<>> \/ Head(a) # Head(b) THEN 0
    ELSE 1 + CommonLen(Tail(a), Tail(b))

\* the general case: ".." for what is left of base after the common
\* elements, then what is left of targ
RelBySegs(b, t, c) ==
    JoinSegs([i \in 1..(Len(b) - c) |-> ".."] \o SubSeq(t, c + 1, Len(t)))

Rel(base, targ) ==
    IF targ = base THEN "."
    ELSE IF HasPrefix(targ, base \o "/")
              /\ ~Contains(SubSeq(targ, Len(base) + 1, Len(targ)), "//")
         THEN SubSeq(targ, Len(base) + 2, Len(targ))
    ELSE IF Segs(targ) = Segs(base) THEN "."
    ELSE RelBySegs(Segs(base), Segs(targ), CommonLen(Segs(base), Segs(targ)))

(***************************************************************************)
(* The body of the pipeline loop (Watcher.Start), as functions of one      *)
(* notification and of the outcomes of the system calls it makes.          *)
(* A notification is [Name, Op, id]: Op is the set of fsnotify.Op bits,    *)
(* id numbers the notifications in the order the primitive produced them.  *)
(***************************************************************************)
OpBits == {"Create", "Write", "Remove", "Rename", "Chmod"}

\* the filter without its swap-prefix pattern
IsEditorTempNoSwap(name) == Contains(name, ".tmp") \/ HasSuffix(name, "~")

\* watcher.go:128
IsEditorTemp(name) ==
    Contains(name, ".tmp") \/ HasSuffix(name, "~") \/ HasPrefix(name, "#")

\* watcher.go:135
IsGitPath(path) == Contains(path, ".git")

\* watcher.go:133-137: gitOp, "" for a path outside the metadata
GitOpOf(path, name, isGitOp) ==
    IF isGitOp THEN detectGitOperation(path, name) ELSE ""

\* the classification step without the "continue" of line 139
SkippedByClassHiddenOnly(name, isGitOp, gitOp) == ~isGitOp /\ HasPrefix(name, ".")

\* watcher.go:138-142: the two "continue" of the classification step
SkippedByClass(name, isGitOp, gitOp) ==
    IF isGitOp THEN gitOp = "" ELSE HasPrefix(name, ".")

\* the switch without its Rename case
OpNameNoRename(op) ==
    IF "Create" \in op THEN "created"
    ELSE IF "Write" \in op THEN "modified"
    ELSE IF "Remove" \in op THEN "deleted"
    ELSE ""

\* watcher.go:146-163: the switch on event.Op; "" is "continue"
OpName(op) ==
    IF "Create" \in op THEN "created"
    ELSE IF "Write" \in op THEN "modified"
    ELSE IF "Remove" \in op THEN "deleted"
    ELSE IF "Rename" \in op THEN "renamed"
    ELSE ""

\* watcher.go:128-143: the notification gets past the "continue" of the
\* editor-temp filter and of the classification step
PastFilters(name, isGitOp, gitOp) ==
    ~IsEditorTemp(name) /\ ~SkippedByClass(name, isGitOp, gitOp)

\* the loop body without the "continue" of the switch (160, 162)
AcceptedAnyKind(past, op) == past

\* the notification gets past every "continue" of the loop body
Accepted(past, op) == past /\ op # ""

\* the Create case without lines 150-152
AddsWatchNever(past, bits, st) == FALSE

\* watcher.go:147-152: a watch is added for a created directory
AddsWatch(past, bits, st) == past /\ "Create" \in bits /\ st.ok /\ st.isDir

\* a loop body that drops the watch of a removed or renamed path
WatchesAfterUnwatch(ws, n, adds) ==
    IF adds THEN ws \cup {n.Name}
    ELSE IF n.Op \cap {"Remove", "Rename"} # {} THEN ws \ {n.Name}
    ELSE ws

\* watcher.go:146-163: the registrations after the switch on event.Op: the
\* Create case may add one (151), no case removes any
WatchesAfter(ws, n, adds) == IF adds THEN ws \cup {n.Name} ELSE ws

\* a preview for every created or modified path, metadata included
WantsPreviewAlways(isGitOp, op) == op = "modified" \/ op = "created"

\* watcher.go:177
WantsPreview(isGitOp, op) == ~isGitOp /\ (op = "modified" \/ op = "created")

\* a FileEvent whose kind follows the outcome of the status call
BuildEventByStat(path, rel, name, isGitOp, gitOp, op, st, rd, now) ==
    [Path      |-> IF rel = "" THEN path ELSE rel,
     Name      |-> name,
     Operation |-> IF st.ok THEN op ELSE "deleted",
     Time      |-> now,
     Size      |-> IF st.ok THEN st.size ELSE 0,
     IsGitOp   |-> isGitOp,
     GitOp     |-> gitOp,
     Preview   |-> IF WantsPreview(isGitOp, op)
                   THEN getFilePreview(rd, PreviewLines) ELSE <<>>]

\* watcher.go:165-190: the FileEvent of an accepted notification; st is the
\* outcome of os.Stat (166), rd of os.ReadFile (213), now of time.Now()
BuildEvent(path, rel, name, isGitOp, gitOp, op, st, rd, now) ==
    [Path      |-> IF rel = "" THEN path ELSE rel,
     Name      |-> name,
     Operation |-> op,
     Time      |-> now,
     Size      |-> IF st.ok THEN st.size ELSE 0,
     IsGitOp   |-> isGitOp,
     GitOp     |-> gitOp,
     Preview   |-> IF WantsPreview(isGitOp, op)
                   THEN getFilePreview(rd, PreviewLines) ELSE <<>>]

(***************************************************************************)
(* New: the initial walk.  A tree maps each path of a finite universe to   *)
(* [kind, data], kind being "none", "dir" or "file".                       *)
(***************************************************************************)
Root == "/w"

IgnoredDirNames == {"node_modules", "vendor", "dist", "__pycache__"}

\* the callback without its ignore list
SkipsEntryHiddenOnly(path, name) ==
    HasPrefix(name, ".") /\ name # ".git" /\ ~Contains(path, ".git")

\* watcher.go:63-81: the callback returns SkipDir (or nil, for a file)
\* before it reaches the registration
SkipsEntry(path, name) ==
    \/ name \in IgnoredDirNames
    \/ HasPrefix(name, ".") /\ name # ".git" /\ ~Contains(path, ".git")

\* filepath.Walk reaches p: every directory from the root down to the
\* parent of p was entered
RECURSIVE Visited(_, _, _)
Visited(tree, root, p) ==
    IF p = root THEN tree[root].kind # "none"
    ELSE /\ Dir(p) \in DOMAIN tree
         /\ tree[Dir(p)].kind = "dir"
         /\ Visited(tree, root, Dir(p))
         /\ ~SkipsEntry(Dir(p), Base(Dir(p)))

\* watcher.go:83-87: the directories the walk registers
WalkWatches(tree, root) ==
    {p \in DOMAIN tree :
        /\ tree[p].kind = "dir"
        /\ Visited(tree, root, p)
        /\ ~SkipsEntry(p, Base(p))}

\* watcher.go:97-110: the metadata directories registered explicitly
GitDirs(root) ==
    {root \o "/.git", root \o "/.git/refs", root \o "/.git/refs/heads",
     root \o "/.git/refs/remotes", root \o "/.git/logs",
     root \o "/.git/logs/refs", root \o "/.git/logs/refs/heads"}

NewWatches(tree, root) ==
    WalkWatches(tree, root)
    \cup {d \in GitDirs(root) : d \in DOMAIN tree /\ tree[d].kind = "dir"}

\* watcher.go:35-113  New(root).  primFails: fsnotify.NewWatcher returns an
\* error (36-39); unwatchable: the directories for which fsWatcher.Add
\* returns an error (84, 108).  The callback of the walk returns nil or
\* SkipDir only (59-61, 67-69, 78-80, 88), so filepath.Walk returns nil and
\* the branch at 91-94 is never taken.  walked is what the walk registered,
\* counted by WatchCount (85); the additions of 106-110 are not counted.
NewResult(tree, root, unwatchable, primFails) ==
    IF primFails
    THEN [ok |-> FALSE, watches |-> {}, walked |-> {}, WatchCount |-> 0]
    ELSE [ok |-> TRUE,
          watches |-> NewWatches(tree, root) \ unwatchable,
          walked |-> WalkWatches(tree, root) \ unwatchable,
          WatchCount |-> Cardinality(WalkWatches(tree, root) \ unwatchable)]

(***************************************************************************)
(* State.                                                                  *)
(***************************************************************************)
VARIABLES
    fs,          \* the directory tree under the root
    osq,         \* fsnotify: notifications not yet read from watcher.Events
    oserrs,      \* fsnotify: errors not yet read from watcher.Errors
    emitted,     \* number of notifications the primitive has produced
    errsEmitted, \* number of errors the primitive has produced
    osClosed,    \* fsnotify.Watcher.Close has been called
    pc,          \* pipeline task: "new", "select", "publish", "senderr", "exited"
    pending,     \* the FileEvent of the send at watcher.go:181, <<>> if none
    errPending,  \* the error of the send at watcher.go:196, <<>> if none
    watches,     \* directories registered with the primitive
    events,      \* Watcher.Events (capacity EventsCap)
    errors,      \* Watcher.Errors (capacity ErrorsCap)
    clock,       \* time.Now(), counted in events built
    uiPc,        \* UI program: "new", "run", "stopping", "closing", "quit"
    listeners,   \* listenForEvents commands blocked on <-w.Events
    msgs,        \* fileEventMsg returned by a listener, not yet handled
    handled,     \* history: each notification read, with the event it gave
    taken,       \* history: the events received from Watcher.Events, in order
    fnArg,       \* argument of a function applied on its own
    fnOut,       \* <<result>> once the function has been applied, else <<>>
    evClosed,    \* fsnotify: the channel watcher.Events has been closed
    errClosed,   \* fsnotify: the channel watcher.Errors has been closed
    feed,        \* Model.events: the event feed, newest first
    watchMode,   \* Model.watchMode
    history,     \* Model.history: the commands executed, oldest first
    historyIndex, \* Model.historyIndex
    inputValue,  \* Model.input.Value(): the text of the input line
    gitAnimation, \* Model.gitAnimation: the operation animated, "" if none
    gitAnimTick, \* Model.gitAnimTick
    hasWatcher   \* Model.watcher is not nil

osVars == <<fs, osq, oserrs, emitted, errsEmitted, osClosed>>
pipeVars == <<pc, pending, errPending, watches, events, errors, clock>>
uiVars == <<uiPc, listeners, msgs>>
logVars == <<handled, taken>>
fnVars == <<fnArg, fnOut>>
chanVars == <<evClosed, errClosed>>
lineVars == <<historyIndex, inputValue>>
animVars == <<gitAnimation, gitAnimTick>>
viewVars == <<feed, watchMode, history, lineVars, animVars, hasWatcher>>
vars == <<osVars, pipeVars, uiVars, logVars, fnVars, chanVars, viewVars>>

\* watcher.go:44-45
EventsCap == 100
ErrorsCap == 10

\* bounds of the model
MaxOSQueue == 2
MaxListeners == 2

\* the paths of the tree
FsPaths ==
    {Root, "/w/sub", "/w/sub/f.txt", "/w/sub/deep", "/w/sub/deep/g.txt",
     "/w/.cache"}

NoEntry == [kind |-> "none", data |-> ""]
DirEntry == [kind |-> "dir", data |-> ""]
FileEntry(data) == [kind |-> "file", data |-> data]

\* the tree at startup: the root directory, empty
InitTree == [p \in FsPaths |-> IF p = Root THEN DirEntry ELSE NoEntry]

\* the state after NewModel: the watcher is built, nothing runs yet
InitState ==
    /\ fs = InitTree
    /\ osq = <<>>
    /\ oserrs = <<>>
    /\ emitted = 0
    /\ errsEmitted = 0
    /\ osClosed = FALSE
    /\ pc = "new"
    /\ pending = <<>>
    /\ errPending = <<>>
    /\ watches = NewWatches(InitTree, Root)
    /\ events = <<>>
    /\ errors = <<>>
    /\ clock = 0
    /\ uiPc = "new"
    /\ listeners = 0
    /\ msgs = {}
    /\ handled = <<>>
    /\ taken = <<>>
    /\ evClosed = FALSE
    /\ errClosed = FALSE
    /\ feed = <<>>
    /\ watchMode = TRUE
    /\ history = <<>>
    /\ historyIndex = -1
    /\ inputValue = ""
    /\ gitAnimation = ""
    /\ gitAnimTick = 0
    /\ hasWatcher = TRUE

Init ==
    /\ InitState
    /\ fnArg = ""
    /\ fnOut = <<>>

(***************************************************************************)
(* The primitive (fsnotify) as a source of notifications and errors.       *)
(***************************************************************************)
\* the primitive delivers notification (name, op); cap bounds their number
OsEmit(name, op, cap) ==
    /\ ~osClosed
    /\ ~evClosed
    /\ emitted < cap
    /\ Len(osq) < MaxOSQueue
    /\ osq' = Append(osq, [Name |-> name, Op |-> op, id |-> emitted + 1])
    /\ emitted' = emitted + 1
    /\ UNCHANGED <<fs, oserrs, errsEmitted, osClosed>>
    /\ UNCHANGED <<pipeVars, uiVars, logVars>>
    /\ UNCHANGED <<fnVars, chanVars, viewVars>>

\* the primitive reports an error; cap bounds their number
OsError(cap) ==
    /\ ~osClosed
    /\ ~errClosed
    /\ errsEmitted < cap
    /\ oserrs' = Append(oserrs, "overflow")
    /\ errsEmitted' = errsEmitted + 1
    /\ UNCHANGED <<fs, osq, emitted, osClosed>>
    /\ UNCHANGED <<pipeVars, uiVars, logVars>>
    /\ UNCHANGED <<fnVars, chanVars, viewVars>>

\* the primitive shuts down and closes its channel of notifications
PrimCloseEvents ==
    /\ ~evClosed
    /\ evClosed' = TRUE
    /\ UNCHANGED <<osVars, pipeVars, uiVars, logVars>>
    /\ UNCHANGED <<fnVars, errClosed, viewVars>>

\* the primitive shuts down and closes its channel of errors
PrimCloseErrors ==
    /\ ~errClosed
    /\ errClosed' = TRUE
    /\ UNCHANGED <<osVars, pipeVars, uiVars, logVars>>
    /\ UNCHANGED <<fnVars, evClosed, viewVars>>

(***************************************************************************)
(* The pipeline task: the goroutine of Watcher.Start.                      *)
(***************************************************************************)
\* a send that puts the event in front of the buffered ones
SendEventFront(ch, e) == [can |-> Len(ch) < EventsCap, ch |-> <<e>> \o ch]

\* a send that never blocks and drops the event when the buffer is full
SendEventOrDrop(ch, e) ==
    [can |-> TRUE, ch |-> IF Len(ch) < EventsCap THEN Append(ch, e) ELSE ch]

\* watcher.go:181  w.Events <- FileEvent{...}: blocks while the buffer is
\* full, then appends
SendEvent(ch, e) == [can |-> Len(ch) < EventsCap, ch |-> Append(ch, e)]

\* watcher.go:196  w.Errors <- err
SendError(ch, e) == [can |-> Len(ch) < ErrorsCap, ch |-> Append(ch, e)]

\* watcher.go:120-179: the select takes a notification and runs the loop
\* body up to the send.  st1 is the outcome of os.Stat at 150, st2 of
\* os.Stat at 166, rd of os.ReadFile at 213.
HandleEvent(st1, st2, rd) ==
    /\ pc = "select"
    /\ osq # <<>>
    /\ \E n \in {Head(osq)} :
       \E name \in {Base(n.Name)}, isGitOp \in {IsGitPath(n.Name)} :
       \E gitOp \in {GitOpOf(n.Name, name, isGitOp)}, op \in {OpName(n.Op)} :
       \E past \in {PastFilters(name, isGitOp, gitOp)}, rel \in {Rel(Root, n.Name)} :
       \E out \in {IF Accepted(past, op)
                   THEN <<BuildEvent(n.Name, rel, name, isGitOp, gitOp, op,
                                     st2, rd, clock + 1)>>
                   ELSE <<>>} :
          /\ osq' = Tail(osq)
          /\ watches' = WatchesAfter(watches, n, AddsWatch(past, n.Op, st1))
          /\ handled' = Append(handled, [n |-> n, out |-> out])
          /\ IF out # <<>>
             THEN /\ pending' = out
                  /\ pc' = "publish"
                  /\ clock' = clock + 1
             ELSE UNCHANGED <<pending, pc, clock>>
    /\ UNCHANGED <<fs, oserrs, emitted, errsEmitted, osClosed>>
    /\ UNCHANGED <<errPending, events, errors, taken>>
    /\ UNCHANGED uiVars
    /\ UNCHANGED <<fnVars, chanVars, viewVars>>

\* watcher.go:181-190: the send on Events
Publish ==
    /\ pc = "publish"
    /\ SendEvent(events, pending[1]).can
    /\ events' = SendEvent(events, pending[1]).ch
    /\ pending' = <<>>
    /\ pc' = "select"
    /\ UNCHANGED <<errPending, watches, errors, clock>>
    /\ UNCHANGED <<osVars, uiVars, logVars>>
    /\ UNCHANGED <<fnVars, chanVars, viewVars>>

\* watcher.go:120-123: the receive from the closed channel of notifications
\* gives !ok once nothing is left in it, and the task returns
RecvEventsClosed ==
    /\ pc = "select"
    /\ evClosed
    /\ osq = <<>>
    /\ pc' = "exited"
    /\ UNCHANGED <<pending, errPending, watches, events, errors, clock>>
    /\ UNCHANGED <<osVars, uiVars, logVars>>
    /\ UNCHANGED <<fnVars, chanVars, viewVars>>

\* watcher.go:192-195: the receive from the closed channel of errors gives
\* !ok once nothing is left in it, and the task returns
RecvErrorsClosed ==
    /\ pc = "select"
    /\ errClosed
    /\ oserrs = <<>>
    /\ pc' = "exited"
    /\ UNCHANGED <<pending, errPending, watches, events, errors, clock>>
    /\ UNCHANGED <<osVars, uiVars, logVars>>
    /\ UNCHANGED <<fnVars, chanVars, viewVars>>

\* a task that returns when the primitive reports an error
RecvErrorExits ==
    /\ pc = "select"
    /\ oserrs # <<>>
    /\ oserrs' = Tail(oserrs)
    /\ pc' = "exited"
    /\ UNCHANGED <<fs, osq, emitted, errsEmitted, osClosed>>
    /\ UNCHANGED <<pending, errPending, watches, events, errors, clock>>
    /\ UNCHANGED <<uiVars, logVars>>
    /\ UNCHANGED <<fnVars, chanVars, viewVars>>

\* watcher.go:192-195: the select takes an error of the primitive
RecvError ==
    /\ pc = "select"
    /\ oserrs # <<>>
    /\ errPending' = <<Head(oserrs)>>
    /\ oserrs' = Tail(oserrs)
    /\ pc' = "senderr"
    /\ UNCHANGED <<fs, osq, emitted, errsEmitted, osClosed>>
    /\ UNCHANGED <<pending, watches, events, errors, clock>>
    /\ UNCHANGED <<uiVars, logVars>>
    /\ UNCHANGED <<fnVars, chanVars, viewVars>>

\* watcher.go:196: the send on Errors
ForwardError ==
    /\ pc = "senderr"
    /\ SendError(errors, errPending[1]).can
    /\ errors' = SendError(errors, errPending[1]).ch
    /\ errPending' = <<>>
    /\ pc' = "select"
    /\ UNCHANGED <<pending, watches, events, clock>>
    /\ UNCHANGED <<osVars, uiVars, logVars>>
    /\ UNCHANGED <<fnVars, chanVars, viewVars>>

(***************************************************************************)
(* The UI program (bubbletea): Init, the listener commands, Update.        *)
(***************************************************************************)
\* model.go:214, 184
FeedCap == 50
HighlightTicks == 30

\* an aging that sets the highlight from the age alone
AgeEventsRelight(evs) ==
    [i \in 1..Len(evs) |->
        [Event     |-> evs[i].Event,
         Age       |-> evs[i].Age + 1,
         Highlight |-> (evs[i].Age + 1) % (HighlightTicks + 2) <= HighlightTicks]]

\* model.go:182-187: every entry one tick older, the highlight off past
\* HighlightTicks
AgeEvents(evs) ==
    [i \in 1..Len(evs) |->
        [Event     |-> evs[i].Event,
         Age       |-> evs[i].Age + 1,
         Highlight |-> IF evs[i].Age + 1 > HighlightTicks
                       THEN FALSE ELSE evs[i].Highlight]]

\* an insertion that keeps the last FeedCap entries
InsertEventKeepLast(evs, e) ==
    \E all \in {<<[Event |-> e, Age |-> 0, Highlight |-> TRUE]>> \o evs} :
        feed' = IF Len(all) > FeedCap
                THEN SubSeq(all, Len(all) - FeedCap + 1, Len(all)) ELSE all

\* model.go:207-216: the new entry in front, then the first FeedCap kept
InsertEvent(evs, e) ==
    \E all \in {<<[Event |-> e, Age |-> 0, Highlight |-> TRUE]>> \o evs} :
        feed' = IF Len(all) > FeedCap THEN SubSeq(all, 1, FeedCap) ELSE all

\* a listener issued without the test for a nil watcher
listenForEventsUnchecked(has) == 1

\* model.go:149-159  listenForEvents: the number of listener commands it
\* returns, none for a nil watcher
listenForEvents(has) == IF has THEN 1 ELSE 0

\* model.go:175  the ticks an animation lasts
AnimTicks == 50

\* a tick that clears the animation and leaves the counter as it is
AnimAfterTickKeepsCount(anim, t) ==
    IF anim # ""
    THEN IF t + 1 > AnimTicks
         THEN [anim |-> "", tick |-> t + 1]
         ELSE [anim |-> anim, tick |-> t + 1]
    ELSE [anim |-> anim, tick |-> t]

\* model.go:173-179: the animation and its counter after a tick
AnimAfterTick(anim, t) ==
    IF anim # ""
    THEN IF t + 1 > AnimTicks
         THEN [anim |-> "", tick |-> 0]
         ELSE [anim |-> anim, tick |-> t + 1]
    ELSE [anim |-> anim, tick |-> t]

\* model.go:201-204: the animation and its counter after an event
AnimAfterEvent(anim, t, e) ==
    IF e.IsGitOp /\ e.GitOp # ""
    THEN [anim |-> e.GitOp, tick |-> 0]
    ELSE [anim |-> anim, tick |-> t]

\* model.go:131-141  Model.Init: starts the pipeline (watcher.go:116-117)
\* unless the watcher is nil, issues the first listener
UiInit ==
    /\ uiPc = "new"
    /\ uiPc' = "run"
    /\ pc' = IF hasWatcher THEN "select" ELSE pc
    /\ listeners' = listenForEvents(hasWatcher)
    /\ UNCHANGED <<pending, errPending, watches, events, errors, clock>>
    /\ UNCHANGED <<msgs, osVars, logVars>>
    /\ UNCHANGED <<fnVars, chanVars, viewVars>>

\* model.go:168-195  Update(tickMsg): ages the feed and issues one more
\* listener; cap bounds the listeners that wait at the same time
Tick(cap) ==
    /\ uiPc = "run"
    /\ listeners + Cardinality(msgs) < cap
    /\ listeners' = listeners + listenForEvents(hasWatcher)
    /\ \E a \in {AnimAfterTick(gitAnimation, gitAnimTick)} :
          gitAnimation' = a.anim /\ gitAnimTick' = a.tick
    /\ feed' = AgeEvents(feed)
    /\ UNCHANGED <<uiPc, msgs, osVars, pipeVars, logVars>>
    /\ UNCHANGED <<fnVars, chanVars, watchMode, history, lineVars, hasWatcher>>

UiTick == Tick(MaxListeners)

\* model.go:153-157: a listener receives from Events and returns the message
ListenerRecv ==
    /\ uiPc # "quit"
    /\ listeners > 0
    /\ events # <<>>
    /\ events' = Tail(events)
    /\ msgs' = msgs \cup {Head(events)}
    /\ listeners' = listeners - 1
    /\ taken' = Append(taken, Head(events))
    /\ UNCHANGED <<pc, pending, errPending, watches, errors, clock>>
    /\ UNCHANGED <<uiPc, handled, osVars>>
    /\ UNCHANGED <<fnVars, chanVars, viewVars>>

\* model.go:197-224  Update(fileEventMsg): issues one more listener
UiHandleEvent ==
    /\ uiPc = "run"
    /\ \E e \in msgs :
        /\ msgs' = msgs \ {e}
        /\ listeners' = listeners + listenForEvents(hasWatcher)
        /\ \E a \in {AnimAfterEvent(gitAnimation, gitAnimTick, e)} :
              gitAnimation' = a.anim /\ gitAnimTick' = a.tick
        /\ InsertEvent(feed, e)
    /\ UNCHANGED <<uiPc, osVars, pipeVars, logVars>>
    /\ UNCHANGED <<fnVars, chanVars, watchMode, history, lineVars, hasWatcher>>

UpperLetters == "ABCDEFGHIJKLMNOPQRSTUVWXYZ"
LowerLetters == "abcdefghijklmnopqrstuvwxyz"

\* the lower-case form of one character
LowerOf(c) ==
    IF \E k \in 1..26 : SubSeq(UpperLetters, k, k) = c
    THEN The({SubSeq(LowerLetters, k, k) :
              k \in {k \in 1..26 : SubSeq(UpperLetters, k, k) = c}})
    ELSE c

\* a comparison that keeps the case of the command
ToLowerKeepsCase(str) == str

\* model.go:241  strings.ToLower
RECURSIVE ToLower(_)
ToLower(str) ==
    IF str = "" THEN ""
    ELSE LowerOf(SubSeq(str, 1, 1)) \o ToLower(SubSeq(str, 2, Len(str)))

\* model.go:241  strings.TrimPrefix(s, p)
TrimPrefix(str, p) ==
    IF HasPrefix(str, p) THEN SubSeq(str, Len(p) + 1, Len(str)) ELSE str

\* model.go:242
WatchCommands == {"watch", "live", "w"}

\* model.go:233-254  Update(enter) with the text input in the input line: a
\* non-empty command goes to the history, sets the mode and the index, and
\* the line is reset; cap bounds the length of the history
UiEnter(input, cap) ==
    /\ uiPc = "run"
    /\ Len(history) < cap
    /\ \E cmd \in {TrimSpace(input)} :
          IF cmd # ""
          THEN /\ history' = Append(history, cmd)
               /\ historyIndex' = Len(history) + 1
               /\ watchMode' = (ToLower(TrimPrefix(cmd, "/")) \in WatchCommands)
               /\ inputValue' = ""
          ELSE /\ inputValue' = input
               /\ UNCHANGED <<history, historyIndex, watchMode>>
    /\ UNCHANGED <<osVars, pipeVars, uiVars, logVars>>
    /\ UNCHANGED <<fnVars, chanVars, feed, animVars, hasWatcher>>

\* model.go:65
defaultCommands ==
    <<"/watch", "/tree", "/uml", "/ascii", "/deps", "/changes", "/stats",
      "/funcs", "/help">>

\* an index that goes down without wrapping
UpIndexNoWrap(idx, n) == idx - 1

\* model.go:259-263
UpIndex(idx, n) == IF idx <= 0 THEN n - 1 ELSE idx - 1

\* model.go:271-275
DownIndex(idx, n) == IF idx >= n - 1 THEN 0 ELSE idx + 1

\* model.go:264, 276  m.input.SetValue(allCommands[m.historyIndex]): the
\* index expression panics when idx is out of range
SetValueAt(all, idx) ==
    /\ historyIndex' = idx
    /\ IF idx \in 0..(Len(all) - 1)
       THEN inputValue' = all[idx + 1] /\ uiPc' = uiPc
       ELSE inputValue' = inputValue /\ uiPc' = "panic"

\* model.go:255-267  Update(up)
UiUp ==
    /\ uiPc = "run"
    /\ \E all \in {history \o defaultCommands} :
          IF Len(all) > 0
          THEN SetValueAt(all, UpIndex(historyIndex, Len(all)))
          ELSE UNCHANGED <<uiPc, lineVars>>
    /\ UNCHANGED <<listeners, msgs, osVars, pipeVars, logVars>>
    /\ UNCHANGED <<fnVars, chanVars, feed, watchMode, history, animVars, hasWatcher>>

\* model.go:268-279  Update(down)
UiDown ==
    /\ uiPc = "run"
    /\ \E all \in {history \o defaultCommands} :
          IF Len(all) > 0
          THEN SetValueAt(all, DownIndex(historyIndex, Len(all)))
          ELSE UNCHANGED <<uiPc, lineVars>>
    /\ UNCHANGED <<listeners, msgs, osVars, pipeVars, logVars>>
    /\ UNCHANGED <<fnVars, chanVars, feed, watchMode, history, animVars, hasWatcher>>

\* model.go:226-232  Update(ctrl+c / esc): calls watcher.Stop unless the
\* watcher is nil, and then quits
UiQuit ==
    /\ uiPc = "run"
    /\ uiPc' = IF hasWatcher THEN "stopping" ELSE "quit"
    /\ UNCHANGED <<listeners, msgs, osVars, pipeVars, logVars>>
    /\ UNCHANGED <<fnVars, chanVars, viewVars>>

\* a Stop whose send on done does not end the pipeline task
StopSendTaskGoesOn ==
    /\ uiPc = "stopping"
    /\ pc = "select"
    /\ pc' = pc
    /\ uiPc' = "closing"
    /\ UNCHANGED <<pending, errPending, watches, events, errors, clock>>
    /\ UNCHANGED <<listeners, msgs, osVars, logVars>>
    /\ UNCHANGED <<fnVars, chanVars, viewVars>>

\* watcher.go:207 with 198-199: the unbuffered send on done meets the
\* select of the pipeline task, which returns
StopSend ==
    /\ uiPc = "stopping"
    /\ pc = "select"
    /\ pc' = "exited"
    /\ uiPc' = "closing"
    /\ UNCHANGED <<pending, errPending, watches, events, errors, clock>>
    /\ UNCHANGED <<listeners, msgs, osVars, logVars>>
    /\ UNCHANGED <<fnVars, chanVars, viewVars>>

\* a Stop that closes the primitive before it sends on done
StopCloseEarly ==
    /\ uiPc = "stopping"
    /\ osClosed' = TRUE
    /\ evClosed' = TRUE
    /\ errClosed' = TRUE
    /\ uiPc' = "quit"
    /\ UNCHANGED <<fs, osq, oserrs, emitted, errsEmitted>>
    /\ UNCHANGED <<listeners, msgs, pipeVars, logVars>>
    /\ UNCHANGED <<fnVars, viewVars>>

\* watcher.go:208  w.watcher.Close(), which closes the channels of the
\* primitive; then Stop returns and the UI quits
StopClose ==
    /\ uiPc = "closing"
    /\ osClosed' = TRUE
    /\ evClosed' = TRUE
    /\ errClosed' = TRUE
    /\ uiPc' = "quit"
    /\ UNCHANGED <<fs, osq, oserrs, emitted, errsEmitted>>
    /\ UNCHANGED <<listeners, msgs, pipeVars, logVars>>
    /\ UNCHANGED <<fnVars, viewVars>>

(***************************************************************************)
(* Specifications.                                                         *)
(***************************************************************************)
\* outcomes of os.Stat: failure, a file of 3 bytes, a directory
StatMissing == [ok |-> FALSE, isDir |-> FALSE, size |-> 0]
StatFile(n) == [ok |-> TRUE, isDir |-> FALSE, size |-> n]
StatDir == [ok |-> TRUE, isDir |-> TRUE, size |-> 4096]
Stats == {StatMissing, StatFile(3), StatDir}

\* outcomes of os.ReadFile: failure, a text, an empty file
ReadFailed == [ok |-> FALSE, data |-> ""]
ReadOk(data) == [ok |-> TRUE, data |-> data]
Reads == {ReadFailed, ReadOk("a\nb\n"), ReadOk("")}

\* Spec: the pipeline, the UI and shutdown on a stream of writes to an
\* ordinary file, a metadata file and an editor backup file
MaxNotifs == 3
StreamNames == {"/w/a.txt", "/w/.git/COMMIT_EDITMSG", "/w/a.txt~"}

Next ==
    \/ UiInit
    \/ \E name \in StreamNames : OsEmit(name, {"Write"}, MaxNotifs)
    \/ \E st \in {StatMissing, StatFile(3)} : HandleEvent(st, st, ReadOk("a\nb\n"))
    \/ Publish
    \/ UiTick
    \/ ListenerRecv
    \/ UiHandleEvent
    \/ UiQuit
    \/ StopSend
    \/ StopClose

Spec == Init /\ [][Next]_vars

\* SpecFilter: one notification at a time through the loop body, over the
\* paths and kinds the filter and the classifier tell apart
MaxFilterNotifs == 1
FilterNames ==
    {"/w/src/app.go", "/w/sub", "/w/Cargo.lock",
     "/w/.git/index.lock", "/w/.git/refs/heads/main.lock",
     "/w/.git/COMMIT_EDITMSG", "/w/.git/refs/remotes/origin/main",
     "/w/.git/refs/heads/#1", "/w/.git/HEAD", "/w/.git/objects/ab",
     "/w/docs/notes.git.md", "/w/my.github.io/HEAD",
     "/w/editor.go.tmp", "/w/a.txt~",
     "/w/.env", "/w/repo.git/refs/heads/.keep"}
FilterOps == {{"Create"}, {"Write"}, {"Remove"}, {"Rename"}, {"Chmod"}}

NextFilter ==
    \/ UiInit
    \/ \E name \in FilterNames, op \in FilterOps : OsEmit(name, op, MaxFilterNotifs)
    \/ \E st \in Stats, rd \in Reads : HandleEvent(st, st, rd)
    \/ Publish
    \/ ListenerRecv
    \/ UiHandleEvent

SpecFilter == Init /\ [][NextFilter]_vars

\* SpecClassify: detectGitOperation applied to one path of a bounded set,
\* with the base name the pipeline passes (watcher.go:125, 137)
ClassifyDirs ==
    {"/w", "/w/.git", "/w/blogs/.git", "/w/.git/logs", "/w/.git/refs",
     "/w/.git/refs/heads", "/w/.git/logs/refs/heads",
     "/w/.git/refs/remotes/origin", "/w/.git/logs/refs/remotes/origin",
     "/w/.git/rebase-merge", "/w/.git/rebase-apply", "/w/.git/logs/refs"}
ClassifyNames ==
    {"HEAD", "main", "COMMIT_EDITMSG", "MERGE_MSG", "FETCH_HEAD", "ORIG_HEAD",
     "MERGE_HEAD", "stash", "index.lock", "HEAD.lock", "config"}
ClassifyPaths == {d \o "/" \o n : d \in ClassifyDirs, n \in ClassifyNames}

InitClassify ==
    /\ InitState
    /\ fnArg \in ClassifyPaths
    /\ fnOut = <<>>

\* watcher.go:137  gitOp = detectGitOperation(event.Name, name)
Classify ==
    /\ fnOut = <<>>
    /\ fnOut' = <<detectGitOperation(fnArg, Base(fnArg))>>
    /\ UNCHANGED <<fnArg, osVars, pipeVars, uiVars, logVars, chanVars, viewVars>>

NextClassify == Classify

SpecClassify == InitClassify /\ [][NextClassify]_vars

\* SpecFS: the notifications come from operations on the tree; the
\* primitive reports an operation on an entry only while the directory that
\* holds the entry has a watch (watches are not recursive)
FsDirs == {"/w/sub", "/w/sub/deep", "/w/.cache"}
FsFiles == {"/w/sub/f.txt", "/w/sub/deep/g.txt"}

\* os.Stat and os.ReadFile on the tree
StatOf(tree, p) ==
    IF p \in DOMAIN tree /\ tree[p].kind = "dir" THEN StatDir
    ELSE IF p \in DOMAIN tree /\ tree[p].kind = "file"
         THEN StatFile(Len(tree[p].data))
    ELSE StatMissing

ReadOf(tree, p) ==
    IF p \in DOMAIN tree /\ tree[p].kind = "file" THEN ReadOk(tree[p].data)
    ELSE ReadFailed

\* an entry appears in the tree: its creation is notified if its parent is
\* watched at that moment
FsCreate(p, entry) ==
    /\ fs[p].kind = "none"
    /\ fs[Dir(p)].kind = "dir"
    /\ fs' = [fs EXCEPT ![p] = entry]
    /\ IF Dir(p) \in watches /\ ~osClosed
       THEN /\ Len(osq) < MaxOSQueue
            /\ osq' = Append(osq, [Name |-> p, Op |-> {"Create"},
                                   id |-> emitted + 1])
            /\ emitted' = emitted + 1
       ELSE UNCHANGED <<osq, emitted>>
    /\ UNCHANGED <<oserrs, errsEmitted, osClosed>>
    /\ UNCHANGED <<pipeVars, uiVars, logVars, fnVars, chanVars, viewVars>>

\* another process creates a directory
Mkdir(p) == FsCreate(p, DirEntry)

\* another process creates a file
CreateFile(p, data) == FsCreate(p, FileEntry(data))

\* the loop body, its system calls answered by the tree
HandleEventFS ==
    /\ osq # <<>>
    /\ HandleEvent(StatOf(fs, Head(osq).Name), StatOf(fs, Head(osq).Name),
                   ReadOf(fs, Head(osq).Name))

NextFS ==
    \/ UiInit
    \/ \E p \in FsDirs : Mkdir(p)
    \/ \E p \in FsFiles : CreateFile(p, "x\n")
    \/ HandleEventFS
    \/ Publish
    \/ ListenerRecv
    \/ UiHandleEvent

SpecFS == Init /\ [][NextFS]_vars

\* SpecGone: SpecFS with files that are removed again, possibly before the
\* pipeline has inspected them; cap bounds the notifications
MaxGoneNotifs == 3

\* another process removes a file: the removal is notified if the parent of
\* the file is watched at that moment
RemoveFile(p, cap) ==
    /\ fs[p].kind = "file"
    /\ emitted < cap
    /\ fs' = [fs EXCEPT ![p] = NoEntry]
    /\ IF Dir(p) \in watches /\ ~osClosed
       THEN /\ Len(osq) < MaxOSQueue
            /\ osq' = Append(osq, [Name |-> p, Op |-> {"Remove"},
                                   id |-> emitted + 1])
            /\ emitted' = emitted + 1
       ELSE UNCHANGED <<osq, emitted>>
    /\ UNCHANGED <<oserrs, errsEmitted, osClosed>>
    /\ UNCHANGED <<pipeVars, uiVars, logVars, fnVars, chanVars, viewVars>>

NextGone ==
    \/ NextFS
    \/ \E p \in FsFiles : RemoveFile(p, MaxGoneNotifs)

SpecGone == Init /\ [][NextGone]_vars

\* SpecBackpressure: a burst of writes to one file, longer than the buffer
\* of Events, drained by the listener the UI re-issues after each handled
\* event.  The pipeline task and the UI's goroutines are scheduled fairly.
MaxBurst == 102
BurstStat == StatFile(2)
BurstRead == ReadOk("x\n")

NextBackpressure ==
    \/ UiInit
    \/ OsEmit("/w/a.txt", {"Write"}, MaxBurst)
    \/ HandleEvent(BurstStat, BurstStat, BurstRead)
    \/ Publish
    \/ ListenerRecv
    \/ UiHandleEvent

SpecBackpressure ==
    /\ Init
    /\ [][NextBackpressure]_vars
    /\ WF_vars(UiInit)
    /\ WF_vars(HandleEvent(BurstStat, BurstStat, BurstRead))
    /\ WF_vars(Publish)
    /\ WF_vars(ListenerRecv)
    /\ WF_vars(UiHandleEvent)

\* SpecShutdown: the same burst, and the user quits at any moment.  While
\* Update runs Stop the UI handles no message.
NextShutdown ==
    \/ NextBackpressure
    \/ UiQuit
    \/ StopSend
    \/ StopClose

SpecShutdown == Init /\ [][NextShutdown]_vars

\* SpecErrors: errors of the primitive and writes to one file.  Nothing in
\* the program receives from Watcher.Errors.
MaxErrs == 11
MaxErrNotifs == 1

NextErrors ==
    \/ UiInit
    \/ OsEmit("/w/a.txt", {"Write"}, MaxErrNotifs)
    \/ OsError(MaxErrs)
    \/ HandleEvent(BurstStat, BurstStat, BurstRead)
    \/ Publish
    \/ RecvError
    \/ ForwardError
    \/ ListenerRecv
    \/ UiHandleEvent

SpecErrors == Init /\ [][NextErrors]_vars

\* SpecClose: the pipeline with a primitive that reports errors and that
\* may shut down at any moment, closing its two channels one after the
\* other, in either order; the user quits at any moment
MaxCloseNotifs == 2
MaxCloseErrs == 2

NextClose ==
    \/ UiInit
    \/ OsEmit("/w/a.txt", {"Write"}, MaxCloseNotifs)
    \/ OsError(MaxCloseErrs)
    \/ PrimCloseEvents
    \/ PrimCloseErrors
    \/ HandleEvent(BurstStat, BurstStat, BurstRead)
    \/ Publish
    \/ RecvError
    \/ ForwardError
    \/ RecvEventsClosed
    \/ RecvErrorsClosed
    \/ ListenerRecv
    \/ UiHandleEvent
    \/ UiQuit
    \/ StopSend
    \/ StopClose

SpecClose == Init /\ [][NextClose]_vars

\* SpecFeed: a burst of writes to one file, longer than the feed, handled
\* by the UI; the ticks come once the feed is nearly full (each of them
\* leaves one more listener behind, and the listeners deliver in any order)
MaxFeedBurst == 52
MaxFeedListeners == 2

FeedTick ==
    /\ Len(feed) >= FeedCap - 1
    /\ Tick(MaxFeedListeners)

NextFeed ==
    \/ UiInit
    \/ OsEmit("/w/a.txt", {"Write"}, MaxFeedBurst)
    \/ HandleEvent(BurstStat, BurstStat, BurstRead)
    \/ Publish
    \/ ListenerRecv
    \/ UiHandleEvent
    \/ FeedTick

SpecFeed == Init /\ [][NextFeed]_vars

\* SpecAge: a few writes to one file and ticks enough for an entry of the
\* feed to outlive its highlight
MaxAgeNotifs == 2
MaxAgeListeners == 33

NextAge ==
    \/ UiInit
    \/ OsEmit("/w/a.txt", {"Write"}, MaxAgeNotifs)
    \/ HandleEvent(BurstStat, BurstStat, BurstRead)
    \/ Publish
    \/ ListenerRecv
    \/ UiHandleEvent
    \/ Tick(MaxAgeListeners)

SpecAge == Init /\ [][NextAge]_vars

\* SpecCommands: the user enters commands, the watch commands in several
\* spellings, other commands, near misses and blank input
MaxCommands == 2
CommandInputs ==
    {"", "  ", "/watch", "watch", "/WATCH", "Live", " /live ", "/w", "W",
     "/tree", "help", "//watch", "/watcher", "/ w", "w/"}

NextCommands ==
    \/ UiInit
    \/ \E input \in CommandInputs : UiEnter(input, MaxCommands)

SpecCommands == Init /\ [][NextCommands]_vars

\* SpecDirs: directories and a file that are created, removed and renamed,
\* among them a directory with a name of the ignore list of the walk
MaxDirNotifs == 2
DirNames == {"/w/sub", "/w/node_modules", "/w/a.txt"}
DirOps == {{"Create"}, {"Remove"}, {"Rename"}}

NextDirs ==
    \/ UiInit
    \/ \E name \in DirNames, op \in DirOps : OsEmit(name, op, MaxDirNotifs)
    \/ \E st \in {StatDir, StatMissing} : HandleEvent(st, st, ReadFailed)
    \/ Publish
    \/ ListenerRecv
    \/ UiHandleEvent

SpecDirs == Init /\ [][NextDirs]_vars

\* SpecHistory: commands typed and executed, and the Up and Down keys
MaxHistory == 2
HistoryInputs == {"/tree", "w", " "}

NextHistory ==
    \/ UiInit
    \/ \E input \in HistoryInputs \cup {inputValue} : UiEnter(input, MaxHistory)
    \/ UiUp
    \/ UiDown

SpecHistory == Init /\ [][NextHistory]_vars

\* SpecNoWatcher: the UI after a NewModel whose watcher.New failed
\* (watcher.go:36-39, model.go:113): the watcher is nil, no primitive
\* exists and nothing is watched
InitNoWatcher ==
    /\ fs = InitTree
    /\ osq = <<>> /\ oserrs = <<>> /\ emitted = 0 /\ errsEmitted = 0
    /\ osClosed = FALSE
    /\ pc = "new" /\ pending = <<>> /\ errPending = <<>>
    /\ watches = {}
    /\ events = <<>> /\ errors = <<>> /\ clock = 0
    /\ uiPc = "new" /\ listeners = 0 /\ msgs = {}
    /\ handled = <<>> /\ taken = <<>>
    /\ fnArg = "" /\ fnOut = <<>>
    /\ evClosed = FALSE /\ errClosed = FALSE
    /\ feed = <<>> /\ watchMode = TRUE /\ history = <<>>
    /\ historyIndex = -1 /\ inputValue = ""
    /\ gitAnimation = "" /\ gitAnimTick = 0
    /\ hasWatcher = FALSE

NextNoWatcher ==
    \/ UiInit
    \/ UiTick
    \/ \E input \in HistoryInputs \cup {inputValue} : UiEnter(input, MaxHistory)
    \/ UiUp
    \/ UiDown
    \/ UiQuit

SpecNoWatcher == InitNoWatcher /\ [][NextNoWatcher]_vars

\* SpecAnim: writes below .git that the classifier names, and a write of an
\* ordinary file, with enough ticks for an animation to end.  The ticks
\* start with the first entry of the feed and fall between the events, while
\* nothing is on its way from the primitive to the UI.
MaxAnimNotifs == 2
MaxAnimListeners == 53
AnimNames == {"/w/.git/COMMIT_EDITMSG", "/w/.git/FETCH_HEAD", "/w/a.txt"}

AnimTick ==
    /\ feed # <<>>
    /\ osq = <<>> /\ pending = <<>> /\ events = <<>> /\ msgs = {}
    /\ Tick(MaxAnimListeners)

NextAnim ==
    \/ UiInit
    \/ \E name \in AnimNames : OsEmit(name, {"Write"}, MaxAnimNotifs)
    \/ HandleEvent(BurstStat, BurstStat, BurstRead)
    \/ Publish
    \/ ListenerRecv
    \/ UiHandleEvent
    \/ AnimTick

SpecAnim == Init /\ [][NextAnim]_vars

\* SpecNew: New applied to one tree of a bounded set, for a root that is an
\* ordinary, a hidden or an ignore-listed directory, present or not.  fs is
\* the tree, fnArg the other inputs, fnOut the result.
NewRoots == {"/w", "/w/.cfg", "/w/dist"}
NewDirs ==
    {"/w", "/w/src", "/w/.github", "/w/.cfg", "/w/.cfg/.git",
     "/w/node_modules", "/w/node_modules/pkg",
     "/w/.git", "/w/.git/refs", "/w/.git/dist", "/w/dist", "/w/dist/.git"}
NewUnwatchable == {"/w/src", "/w/.git/refs"}

\* a tree: a set of directories closed under parent, or nothing at all
NewTrees ==
    {[p \in NewDirs |-> IF p \in ds THEN DirEntry ELSE NoEntry] :
        ds \in {d \in SUBSET NewDirs :
                   d = {} \/ \A p \in d : p = "/w" \/ Dir(p) \in d}}

InitNew ==
    /\ fs \in NewTrees
    /\ fnArg \in [root : NewRoots, unwatchable : SUBSET NewUnwatchable,
                  primFails : BOOLEAN]
    /\ fnOut = <<>>
    /\ watches = {}
    /\ osq = <<>> /\ oserrs = <<>> /\ emitted = 0 /\ errsEmitted = 0
    /\ osClosed = FALSE
    /\ pc = "new" /\ pending = <<>> /\ errPending = <<>>
    /\ events = <<>> /\ errors = <<>> /\ clock = 0
    /\ uiPc = "new" /\ listeners = 0 /\ msgs = {}
    /\ handled = <<>> /\ taken = <<>>
    /\ evClosed = FALSE /\ errClosed = FALSE
    /\ feed = <<>> /\ watchMode = TRUE /\ history = <<>>
    /\ historyIndex = -1 /\ inputValue = ""
    /\ gitAnimation = "" /\ gitAnimTick = 0
    /\ hasWatcher = TRUE

\* watcher.go:35-113
New ==
    /\ fnOut = <<>>
    /\ \E res \in {NewResult(fs, fnArg.root, fnArg.unwatchable, fnArg.primFails)} :
          /\ fnOut' = <<res>>
          /\ watches' = res.watches
    /\ UNCHANGED <<fs, osq, oserrs, emitted, errsEmitted, osClosed>>
    /\ UNCHANGED <<pc, pending, errPending, events, errors, clock>>
    /\ UNCHANGED <<uiVars, logVars, fnArg, chanVars, viewVars>>

NextNew == New

SpecNew == InitNew /\ [][NextNew]_vars

\* SpecPreview: getFilePreview applied to the content of one readable file
\* of a bounded set.  A content is a string of bytes; LeadByte and ContByte
\* stand for the two bytes of a character that UTF-8 encodes in two bytes
\* (0xC3 0xA9 for instance), which have no string literal.
LeadByte == "<"
ContByte == ">"
WideChar == LeadByte \o ContByte

\* n copies of str, built by halving
RECURSIVE Repeat(_, _)
Repeat(str, n) ==
    IF n = 0 THEN ""
    ELSE IF n % 2 = 1 THEN str \o Repeat(str, n - 1)
    ELSE The({h \o h : h \in {Repeat(str, n \div 2)}})

\* the lines the contents are made of: blank ones, short ones, padded
\* ones, lines of PreviewWidth and PreviewWidth + 1 one-byte characters, a
\* line of 31 two-byte characters
PreviewLineKinds ==
    {"", " \t", "a", " b \r", Repeat("x", PreviewWidth),
     Repeat("y", PreviewWidth + 1), Repeat(WideChar, 31)}

MaxPreviewLines == 4

RECURSIVE JoinLines(_)
JoinLines(ls) ==
    IF ls = <<>> THEN ""
    ELSE IF Len(ls) = 1 THEN ls[1]
    ELSE ls[1] \o "\n" \o JoinLines(Tail(ls))

\* text contents: up to MaxPreviewLines lines, the last one with or without
\* its newline
TextContents ==
    {JoinLines(ls) \o t :
        ls \in UNION {[1..n -> PreviewLineKinds] : n \in 0..MaxPreviewLines},
        t \in {"", "\n"}}

\* contents with a null byte, up to the two sides of the end of the probe
NulContents ==
    {NulByte, "a\n" \o NulByte \o "b\nc\n", " \n" \o NulByte,
     Repeat("z", BinaryProbeLen - 1) \o NulByte,
     Repeat("z", BinaryProbeLen) \o NulByte \o "\nend\n"}

InitPreview ==
    /\ InitState
    /\ fnArg \in TextContents \cup NulContents
    /\ fnOut = <<>>

\* watcher.go:178  preview = getFilePreview(event.Name, 3), the file read
\* without error
Preview ==
    /\ fnOut = <<>>
    /\ fnOut' = <<getFilePreview(ReadOk(fnArg), PreviewLines)>>
    /\ UNCHANGED <<fnArg, osVars, pipeVars, uiVars, logVars, chanVars, viewVars>>

NextPreview == Preview

SpecPreview == InitPreview /\ [][NextPreview]_vars

(***************************************************************************)
(* Histories derived from the state.                                       *)
(***************************************************************************)
\* the events the pipeline built, in the order it read their notifications
RECURSIVE OutEvents(_)
OutEvents(h) == IF h = <<>> THEN <<>> ELSE Head(h).out \o OutEvents(Tail(h))

\* the events sent on Events so far, in the order of the sends
PublishedSeq == taken \o events

Range(f) == {f[i] : i \in DOMAIN f}

\* the path lies inside the .git directory
InMetadataDir(path) == Contains(path, "/.git/")

\* the kind is created, modified, removed or renamed
IsChangeKind(op) == op \cap {"Create", "Write", "Remove", "Rename"} # {}

(***************************************************************************)
(* C1: events are published in the order in which their notifications     *)
(* were received from the primitive, one event per accepted notification:  *)
(* the pipeline reads notifications in the order the primitive produced    *)
(* them, and the events sent on Events, followed by the one waiting at the *)
(* send, are exactly the events built for the accepted notifications, in   *)
(* that order (nothing reordered, merged or lost).                         *)
(***************************************************************************)
PublishedInReceiveOrder ==
    /\ \A i, j \in 1..Len(handled) :
          i < j => handled[i].n.id < handled[j].n.id
    /\ PublishedSeq \o pending = OutEvents(handled)

\* two successive writes to the same file have both been published, after
\* an event of another file
TwoWritesTwoEvents ==
    /\ Len(PublishedSeq) >= 3
    /\ PublishedSeq[1].Path = ".git/COMMIT_EDITMSG"
    /\ PublishedSeq[2].Path = "a.txt"
    /\ PublishedSeq[3].Path = "a.txt"

(***************************************************************************)
(* C7: in every published event git_operation is set iff is_git_operation  *)
(* is true, and a preview is present only when is_git_operation is false   *)
(* and the kind is created or modified.                                    *)
(***************************************************************************)
EventWellFormed(e) ==
    /\ (e.GitOp # "") <=> e.IsGitOp
    /\ e.Preview # <<>> => (~e.IsGitOp /\ e.Operation \in {"created", "modified"})

PublishedEventsWellFormed ==
    \A e \in Range(PublishedSeq \o pending) : EventWellFormed(e)

\* a created metadata file has been published as a commit, and without
\* preview
GitEventPublished ==
    \E e \in Range(PublishedSeq) :
        e.IsGitOp /\ e.Operation = "created" /\ e.GitOp = "commit"

GitEventOf(h) ==
    /\ Len(h.out) = 1
    /\ h.out[1].IsGitOp
    /\ h.out[1].GitOp = detectGitOperation(h.n.Name, Base(h.n.Name))
    /\ h.out[1].Preview = <<>>
    /\ h.n.Name = "/w/.git/COMMIT_EDITMSG" => h.out[1].GitOp = "commit"
    /\ h.n.Name = "/w/.git/refs/remotes/origin/main" => h.out[1].GitOp = "push"

ClassifiedPath(n) ==
    /\ IsChangeKind(n.Op)
    /\ InMetadataDir(n.Name)
    /\ detectGitOperation(n.Name, Base(n.Name)) # ""

ClassifiedPathGivesGitEvent ==
    \A i \in 1..Len(handled) :
        ClassifiedPath(handled[i].n) => GitEventOf(handled[i])

(***************************************************************************)
(* C10 amended: the same, for a metadata path whose base name is not an    *)
(* editor-transient name (contains .tmp, ends in ~ or starts with #).      *)
(***************************************************************************)
ClassifiedNonTransientGivesGitEvent ==
    \A i \in 1..Len(handled) :
        (ClassifiedPath(handled[i].n) /\ ~IsEditorTemp(Base(handled[i].n.Name)))
            => GitEventOf(handled[i])

\* a renamed remote ref has been published as a push
PushEventPublished ==
    /\ \E i \in 1..Len(handled) :
          /\ handled[i].n.Name = "/w/.git/refs/remotes/origin/main"
          /\ handled[i].n.Op = {"Rename"}
    /\ \E e \in Range(PublishedSeq) : e.GitOp = "push" /\ e.Operation = "renamed"

(***************************************************************************)
(* C9: detectGitOperation returns the result of the first matching rule    *)
(* of the ordered list: lock suffix -> suppress (""); COMMIT_EDITMSG or    *)
(* MERGE_MSG -> commit; refs/heads -> commit; refs/remotes -> push;        *)
(* FETCH_HEAD -> fetch; ORIG_HEAD -> pull; MERGE_HEAD -> merge;            *)
(* rebase-merge or rebase-apply -> rebase; refs/stash or name stash ->     *)
(* stash; name HEAD and the path not inside a logs directory -> checkout;  *)
(* anything else -> suppress.                                              *)
(***************************************************************************)
\* some directory on the path is named logs
InLogsDir(path) == Contains(path, "/logs/")

FirstMatchingRule(path, name) ==
    IF HasSuffix(path, ".lock") THEN ""
    ELSE IF name \in {"COMMIT_EDITMSG", "MERGE_MSG"} THEN "commit"
    ELSE IF Contains(path, "refs/heads") THEN "commit"
    ELSE IF Contains(path, "refs/remotes") THEN "push"
    ELSE IF name = "FETCH_HEAD" THEN "fetch"
    ELSE IF name = "ORIG_HEAD" THEN "pull"
    ELSE IF name = "MERGE_HEAD" THEN "merge"
    ELSE IF Contains(path, "rebase-merge") \/ Contains(path, "rebase-apply")
         THEN "rebase"
    ELSE IF Contains(path, "refs/stash") \/ name = "stash" THEN "stash"
    ELSE IF name = "HEAD" /\ ~InLogsDir(path) THEN "checkout"
    ELSE ""

ClassifierFollowsRuleList ==
    fnOut # <<>> => fnOut[1] = FirstMatchingRule(fnArg, Base(fnArg))

(***************************************************************************)
(* C5: when a directory is created under a watched directory and a file is *)
(* created inside it right afterwards, two events are published, the       *)
(* directory's and then the file's (path relative to the root), in every   *)
(* interleaving.  Stated on the runs' resting points: once both exist and  *)
(* the pipeline has nothing left to read, both events have been published. *)
(***************************************************************************)
\* the pipeline task waits in its select and no notification is left
AtRest == pc = "select" /\ osq = <<>>

InnerCreationPublished ==
    (AtRest /\ fs["/w/sub"].kind = "dir" /\ fs["/w/sub/f.txt"].kind = "file")
        => \E i, j \in 1..Len(PublishedSeq) :
              /\ i < j
              /\ PublishedSeq[i].Path = "sub"
              /\ PublishedSeq[j].Path = "sub/f.txt"

(***************************************************************************)
(* C6: eventually every directory reachable from the root that PathFilter  *)
(* does not exclude has a watch.  Stated on the runs' resting points: when *)
(* the pipeline has nothing left to read, every directory the walk of New  *)
(* would register in the present tree has a watch.                         *)
(***************************************************************************)
AllDirsWatchedAtRest ==
    AtRest => WalkWatches(fs, Root) \subseteq watches

(***************************************************************************)
(* C2: when Events is full the pipeline blocks on the send and drops       *)
(* nothing: the buffer never holds more than its capacity, and from a      *)
(* state where the task is blocked on the full buffer the run reaches a    *)
(* state where every notification read and accepted so far has been sent,  *)
(* in the order of reading.                                                *)
(***************************************************************************)
BlockedOnFullEvents == pc = "publish" /\ Len(events) = EventsCap

HasOut(x) == x.out # <<>>

\* PublishedSeq = OutEvents(handled), element by element
AllAcceptedPublished ==
    \E acc \in {SelectSeq(handled, HasOut)}, pub \in {PublishedSeq} :
        /\ Len(acc) = Len(pub)
        /\ \A i \in 1..Len(acc) : acc[i].out[1] = pub[i]

BackpressureKeepsAll ==
    /\ [](Len(events) <= EventsCap)
    /\ BlockedOnFullEvents ~> AllAcceptedPublished

\* the task is blocked on the full buffer while a notification waits
BlockedWithBacklog == BlockedOnFullEvents /\ osq # <<>>

(***************************************************************************)
(* C3: shutdown never gets stuck: while Stop is waiting to hand over the   *)
(* stop signal, the pipeline task can still get back to its select: it is  *)
(* there, or its send on Events can complete (now, or after a listener     *)
(* that is still running takes an event).  In a state where this fails no  *)
(* step changes pc, events or listeners any more, so Stop never returns.   *)
(***************************************************************************)
TaskCanReachSelect ==
    \/ pc = "select"
    \/ pc = "publish" /\ (Len(events) < EventsCap \/ listeners > 0)

ShutdownNeverStuck == uiPc = "stopping" => TaskCanReachSelect

(***************************************************************************)
(* C4: errors of the primitive never interrupt the feed: whatever the      *)
(* number of errors, read from Watcher.Errors or not, the task is never    *)
(* held at the send on a full Errors buffer (nothing in the program        *)
(* receives from Errors, so from such a state no later notification is     *)
(* published).                                                             *)
(***************************************************************************)
FeedNeverBlockedOnErrors == ~(pc = "senderr" /\ Len(errors) = ErrorsCap)

(***************************************************************************)
(* C11: a notification for a path that is not inside the .git directory    *)
(* is classified ordinary: an event published for it has is_git_operation  *)
(* false and no git operation, and the notification is not suppressed as   *)
(* metadata bookkeeping (with a change kind and a base name that is        *)
(* neither hidden nor editor-transient it gives an event).                 *)
(***************************************************************************)
OrdinaryName(name) == ~HasPrefix(name, ".") /\ ~IsEditorTemp(name)

OrdinaryPathIsOrdinary ==
    \A i \in 1..Len(handled) :
        ~InMetadataDir(handled[i].n.Name) =>
            /\ \A e \in Range(handled[i].out) : ~e.IsGitOp /\ e.GitOp = ""
            /\ (IsChangeKind(handled[i].n.Op)
                   /\ OrdinaryName(Base(handled[i].n.Name)))
                  => handled[i].out # <<>>

(***************************************************************************)
(* C12: a notification for a path inside the .git directory that matches   *)
(* none of the operation rules of the classifier (rules 2 to 10 of its     *)
(* list) gives no event, whatever its kind.                                *)
(***************************************************************************)
MatchesOperationRule(path, name) ==
    \/ name \in {"COMMIT_EDITMSG", "MERGE_MSG", "FETCH_HEAD", "ORIG_HEAD",
                 "MERGE_HEAD", "stash"}
    \/ Contains(path, "refs/heads") \/ Contains(path, "refs/remotes")
    \/ Contains(path, "rebase-merge") \/ Contains(path, "rebase-apply")
    \/ Contains(path, "refs/stash")
    \/ name = "HEAD" /\ ~InLogsDir(path)

UnclassifiedMetadataDiscarded ==
    \A i \in 1..Len(handled) :
        (InMetadataDir(handled[i].n.Name)
           /\ ~MatchesOperationRule(handled[i].n.Name, Base(handled[i].n.Name)))
            => handled[i].out = <<>>

\* the pipeline has read the write of an object file and is back at its
\* select
ObjectWriteHandled ==
    /\ pc = "select"
    /\ \E i \in 1..Len(handled) :
          /\ handled[i].n.Name = "/w/.git/objects/ab"
          /\ handled[i].n.Op = {"Write"}

(***************************************************************************)
(* C13: a notification whose base name ends in .tmp, ends in ~ or starts   *)
(* with # gives no event, for every kind, inside the .git directory too.   *)
(***************************************************************************)
TransientName(name) ==
    HasSuffix(name, ".tmp") \/ HasSuffix(name, "~") \/ HasPrefix(name, "#")

TransientNeverPublished ==
    \A i \in 1..Len(handled) :
        TransientName(Base(handled[i].n.Name)) => handled[i].out = <<>>

\* the pipeline has read the creation of a swap-named ref inside .git and
\* is back at its select
SwapRefHandled ==
    /\ pc = "select"
    /\ \E i \in 1..Len(handled) :
          /\ handled[i].n.Name = "/w/.git/refs/heads/#1"
          /\ handled[i].n.Op = {"Create"}

(***************************************************************************)
(* C14: a notification whose kind is permission-changed only gives no      *)
(* event, for ordinary and metadata paths alike.                           *)
(***************************************************************************)
ChmodNeverPublished ==
    \A i \in 1..Len(handled) :
        handled[i].n.Op = {"Chmod"} => handled[i].out = <<>>

\* the pipeline has read a permission change of an ordinary file or of a
\* file the classifier maps to an operation
ChmodHandled ==
    /\ pc = "select"
    /\ \E i \in 1..Len(handled) :
          /\ handled[i].n.Op = {"Chmod"}
          /\ handled[i].n.Name \in {"/w/src/app.go", "/w/.git/COMMIT_EDITMSG"}

(***************************************************************************)
(* C15: when the root does not exist New fails: it returns an error and no *)
(* watcher.                                                                *)
(***************************************************************************)
MissingRootFailsNew ==
    (fnOut # <<>> /\ fs[fnArg.root].kind = "none") => ~fnOut[1].ok

(***************************************************************************)
(* C16: when registering a watch fails for some directory New still        *)
(* succeeds, the walk goes on (every other directory the walk accepts has  *)
(* its watch), and WatchCount equals the number of directories that have a *)
(* watch when New returns.                                                 *)
(***************************************************************************)
AddFailureTolerated ==
    (fnOut # <<>> /\ ~fnArg.primFails) =>
        /\ fnOut[1].ok
        /\ WalkWatches(fs, fnArg.root) \ fnArg.unwatchable \subseteq watches
        /\ fnOut[1].WatchCount = Cardinality(watches)

(***************************************************************************)
(* C17: during the initial walk every entry whose name starts with "." is  *)
(* rejected, unless it is the .git directory itself or lies inside it: no  *)
(* directory the walk registers is such an entry or lies below one.        *)
(***************************************************************************)
\* p and the directories above it, up to the root of the walk
RECURSIVE PathChain(_, _)
PathChain(root, p) ==
    IF p = root \/ Len(p) <= Len(root) THEN {p}
    ELSE {p} \cup PathChain(root, Dir(p))

HiddenEntry(q) ==
    HasPrefix(Base(q), ".") /\ Base(q) # ".git" /\ ~InMetadataDir(q)

HiddenRejectedByWalk ==
    fnOut # <<>> =>
        \A p \in fnOut[1].walked :
            \A q \in PathChain(fnArg.root, p) : ~HiddenEntry(q)

(***************************************************************************)
(* C18: during the initial walk no directory named node_modules, vendor,   *)
(* dist or __pycache__ and no directory below one gets a watch.            *)
(***************************************************************************)
IgnoredRejectedByWalk ==
    fnOut # <<>> =>
        \A p \in fnOut[1].walked :
            \A q \in PathChain(fnArg.root, p) : Base(q) \notin IgnoredDirNames

\* New has walked a tree that holds node_modules/pkg and .git/dist and has
\* registered src
IgnoredSubtreeWalked ==
    /\ fnOut # <<>>
    /\ fnArg.root = "/w"
    /\ fs["/w/node_modules/pkg"].kind = "dir"
    /\ fs["/w/.git/dist"].kind = "dir"
    /\ {"/w", "/w/src", "/w/.git"} \subseteq fnOut[1].walked

(***************************************************************************)
(* C19 as stated: whenever the pipeline has read a creation notification   *)
(* whose target is a directory, that directory has a watch before the      *)
(* pipeline reads the next notification (the read and the registration are *)
(* one step of the loop body, so: in every state).                         *)
(***************************************************************************)
CreatedDirRead(h) == "Create" \in h.n.Op /\ fs[h.n.Name].kind = "dir"

CreatedDirWatched ==
    \A i \in 1..Len(handled) :
        CreatedDirRead(handled[i]) => handled[i].n.Name \in watches

(***************************************************************************)
(* C19 amended: the same for a creation notification that gets past the    *)
(* filters of the loop body: its base name is not editor-transient and,    *)
(* for a path containing .git, the classifier maps it to an operation,     *)
(* for any other path, the base name is not hidden.                        *)
(***************************************************************************)
PassesFilters(path) ==
    /\ ~IsEditorTemp(Base(path))
    /\ IF IsGitPath(path) THEN detectGitOperation(path, Base(path)) # ""
       ELSE ~HasPrefix(Base(path), ".")

FilteredCreatedDirWatched ==
    \A i \in 1..Len(handled) :
        (CreatedDirRead(handled[i]) /\ PassesFilters(handled[i].n.Name))
            => handled[i].n.Name \in watches

\* the pipeline has read the creation of the directory sub and nothing
\* else yet
SubCreationRead ==
    /\ Len(handled) = 1
    /\ handled[1].n.Name = "/w/sub"
    /\ CreatedDirRead(handled[1])

(***************************************************************************)
(* C20: when the pipeline task, waiting in its select, takes the stop      *)
(* signal it terminates, and the handle of the primitive is released: the  *)
(* task has exited as soon as Stop's send has been taken and only then,    *)
(* the handle is closed only after that, and it is closed when Stop has    *)
(* returned.                                                               *)
(***************************************************************************)
HandleReleasedAfterStopTaken ==
    /\ uiPc \in {"closing", "quit"} <=> pc = "exited"
    /\ osClosed => pc = "exited"
    /\ uiPc = "quit" <=> osClosed

\* Stop has returned after the pipeline had read notifications
StoppedAfterWork == osClosed /\ pc = "exited" /\ handled # <<>>

(***************************************************************************)
(* C21 as stated: the pipeline task terminates only on the stop signal or  *)
(* when the primitive's channel of notifications is closed: whenever the   *)
(* task has exited, Stop's signal has been taken or that channel is        *)
(* closed.                                                                 *)
(***************************************************************************)
StopTaken == uiPc \in {"closing", "quit"}

ExitsOnStopOrEventsClosed == pc = "exited" => (StopTaken \/ evClosed)

(***************************************************************************)
(* C21 amended: the pipeline task terminates only on the stop signal or    *)
(* when one of the two channels of the primitive, notifications or errors, *)
(* is closed; an error the primitive reports does not end it.              *)
(***************************************************************************)
ExitsOnStopOrChannelClosed ==
    pc = "exited" => (StopTaken \/ evClosed \/ errClosed)

\* the task has forwarded an error, gone on, and exited when a channel of
\* the primitive was closed, without any stop signal
ExitedOnClosedChannel ==
    pc = "exited" /\ errors # <<>> /\ uiPc = "run" /\ (evClosed \/ errClosed)

(***************************************************************************)
(* C22: when the pipeline reads an accepted notification (it gets past the *)
(* filters and has a change kind) and the file it names no longer exists,  *)
(* so that neither its status nor its content can be read, the event is    *)
(* still built and goes to the send, with size 0 and no preview, and       *)
(* nothing is put on the way to the error channel.                         *)
(***************************************************************************)
ReadsGoneFile ==
    /\ pc = "select"
    /\ osq # <<>>
    /\ Len(handled') = Len(handled) + 1
    /\ fs[Head(osq).Name].kind = "none"
    /\ PassesFilters(Head(osq).Name)
    /\ IsChangeKind(Head(osq).Op)

GoneFileStillPublished ==
    [][ReadsGoneFile =>
          /\ pc' = "publish"
          /\ Len(pending') = 1
          /\ pending'[1].Name = Base(Head(osq).Name)
          /\ pending'[1].Operation = OpName(Head(osq).Op)
          /\ pending'[1].Size = 0
          /\ pending'[1].Preview = <<>>
          /\ errors' = errors /\ errPending' = <<>> /\ oserrs' = oserrs]_vars

\* the creation of f.txt has been published with size 0 and no preview:
\* the file was removed before the pipeline inspected it
GoneFilePublished ==
    /\ fs["/w/sub/f.txt"].kind = "none"
    /\ \E e \in Range(PublishedSeq) :
          /\ e.Path = "sub/f.txt" /\ e.Operation = "created"
          /\ e.Size = 0 /\ e.Preview = <<>>

(***************************************************************************)
(* C23: for a readable text file the preview is the last up-to-3 non-blank *)
(* lines of the file, trimmed, in their order in the file, each of at most *)
(* 60 characters: a line of more than 60 characters is cut to its first 57 *)
(* characters plus "...", any other line is kept whole.                    *)
(***************************************************************************)
\* the number of characters of a text
RuneCount(str) == Cardinality({i \in 1..Len(str) : SubSeq(str, i, i) # ContByte})

\* the first n characters of a text
RECURSIVE FirstRunes(_, _)
FirstRunes(str, n) ==
    IF n = 0 \/ str = "" THEN ""
    ELSE LET w == IF SubSeq(str, 1, 1) = LeadByte THEN 2 ELSE 1
         IN  SubSeq(str, 1, w) \o FirstRunes(SubSeq(str, w + 1, Len(str)), n - 1)

CutToWidth(line) ==
    IF RuneCount(line) > PreviewWidth
    THEN FirstRunes(line, PreviewKeep) \o "..." ELSE line

NonBlank(line) == line # ""

TrimmedNonBlankLines(data) ==
    LET lines == SplitLines(data)
    IN  SelectSeq([i \in 1..Len(lines) |-> TrimSpace(lines[i])], NonBlank)

LastLinesCut(data, k) ==
    LET nb == TrimmedNonBlankLines(data)
        n  == IF Len(nb) < k THEN Len(nb) ELSE k
    IN  [i \in 1..n |-> CutToWidth(nb[Len(nb) - n + i])]

PreviewIsLastLines ==
    (fnOut # <<>> /\ ~Contains(fnArg, NulByte)) =>
        /\ fnOut[1] = LastLinesCut(fnArg, PreviewLines)
        /\ \A i \in 1..Len(fnOut[1]) : RuneCount(fnOut[1][i]) <= PreviewWidth

(***************************************************************************)
(* C24: the preview is the one sentinel line when a null byte occurs       *)
(* within the first 512 bytes of the content, and is absent when the file  *)
(* has no non-blank line (every byte of it is white space), a file of 0    *)
(* bytes included.                                                         *)
(***************************************************************************)
NulWithin(data, n) ==
    \E i \in 1..n : i <= Len(data) /\ SubSeq(data, i, i) = NulByte

AllWhiteSpace(data) == \A i \in 1..Len(data) : IsSpace(SubSeq(data, i, i))

SentinelOrAbsent ==
    fnOut # <<>> =>
        /\ NulWithin(fnArg, BinaryProbeLen) => fnOut[1] = <<"[binary file]">>
        /\ AllWhiteSpace(fnArg) => fnOut[1] = <<>>

\* the preview of a file whose 512th byte is its only null byte
NulAtProbeEndPreviewed ==
    /\ fnOut = <<(<<"[binary file]">>)>>
    /\ Len(fnArg) = BinaryProbeLen
    /\ ~NulWithin(fnArg, BinaryProbeLen - 1)

(***************************************************************************)
(* C25: the display layer receives the events in the order of their        *)
(* publication: Update handles an event published earlier before one       *)
(* published later, so in the feed, read from the front, every entry was   *)
(* published after all the entries behind it.                              *)
(***************************************************************************)
\* the rank of an event in the order of the sends on Events
PublishRank(e) == CHOOSE k \in 1..Len(PublishedSeq) : PublishedSeq[k] = e

FeedInPublishOrder ==
    \A i, j \in 1..Len(feed) :
        i < j => PublishRank(feed[i].Event) > PublishRank(feed[j].Event)

(***************************************************************************)
(* C26: the feed never holds more than 50 entries and is newest first:     *)
(* each event Update handles becomes the first entry, the entries that     *)
(* were there follow in their order, and when that makes 51 the last one,  *)
(* the oldest, is the one dropped.                                         *)
(***************************************************************************)
\* the step is Update handling the file event e
UpdateHandles(e) == e \in msgs /\ msgs' = msgs \ {e}

FeedCappedNewestFirst ==
    /\ [](Len(feed) <= FeedCap)
    /\ [][\A e \in msgs : UpdateHandles(e) =>
              /\ Len(feed') = IF Len(feed) < FeedCap THEN Len(feed) + 1 ELSE FeedCap
              /\ feed'[1].Event = e
              /\ \A i \in 2..Len(feed') : feed'[i] = feed[i - 1]]_vars

\* the feed is full and Update has handled more events than it holds
FeedFullAndDropped ==
    /\ Len(feed) = FeedCap
    /\ Len(taken) - Cardinality(msgs) > FeedCap

(***************************************************************************)
(* C27: an entry enters the feed with age 0 and its highlight on; a tick   *)
(* raises the age of every entry by exactly one; the highlight of an entry *)
(* is on exactly while its age is at most 30, and once off stays off; the  *)
(* ages never decrease from the front of the feed to the back.             *)
(***************************************************************************)
\* the step is Update handling a tick
UpdateTicks == listeners' = listeners + 1 /\ msgs' = msgs

EntersYoung == \A e \in msgs :
    UpdateHandles(e) => (feed'[1].Age = 0 /\ feed'[1].Highlight)

TickAgesAll ==
    UpdateTicks =>
        /\ Len(feed') = Len(feed)
        /\ \A i \in 1..Len(feed) :
              /\ feed'[i].Age = feed[i].Age + 1
              /\ feed'[i].Event = feed[i].Event
              /\ feed'[i].Highlight => feed[i].Highlight

AgesAndHighlights ==
    /\ [](\A i \in 1..Len(feed) :
             /\ feed[i].Highlight <=> feed[i].Age <= HighlightTicks
             /\ \A j \in 1..Len(feed) : i < j => feed[i].Age <= feed[j].Age)
    /\ [][EntersYoung /\ TickAgesAll]_vars

\* the older of two entries has lost its highlight, the newer one has not
OlderEntryDimmed ==
    /\ Len(feed) = 2
    /\ feed[1].Highlight /\ feed[1].Age > 0
    /\ ~feed[2].Highlight /\ feed[2].Age > HighlightTicks + 1

(***************************************************************************)
(* C28: a notification for a path that is not inside the .git directory    *)
(* and whose base name starts with "." is discarded: it gives no event     *)
(* and, when it is a creation, no watch is added for the path.             *)
(***************************************************************************)
HiddenOrdinaryDiscarded ==
    \A i \in 1..Len(handled) :
        (~InMetadataDir(handled[i].n.Name)
           /\ HasPrefix(Base(handled[i].n.Name), "."))
            => /\ handled[i].out = <<>>
               /\ "Create" \in handled[i].n.Op => handled[i].n.Name \notin watches

(***************************************************************************)
(* C29: classification is deterministic: two notifications with the same   *)
(* path and the same kind get the same result from the filter-and-classify *)
(* step (both discarded, or both published with the same is_git_operation, *)
(* git operation, kind, name and relative path), whatever was read before  *)
(* and whatever the state of the pipeline and of the files.                *)
(***************************************************************************)
ClassOf(h) ==
    IF h.out = <<>> THEN <<>>
    ELSE <<h.out[1].IsGitOp, h.out[1].GitOp, h.out[1].Operation,
           h.out[1].Name, h.out[1].Path>>

SameIgnoringCase(a, b) ==
    /\ Len(a) = Len(b)
    /\ \A i \in 1..Len(a) :
          \/ SubSeq(a, i, i) = SubSeq(b, i, i)
          \/ \E k \in 1..26 :
                {SubSeq(a, i, i), SubSeq(b, i, i)}
                    = {SubSeq(UpperLetters, k, k), SubSeq(LowerLetters, k, k)}

IsWatchCommand(cmd) ==
    \E w \in {"watch", "live", "w"} :
        SameIgnoringCase(cmd, w) \/ SameIgnoringCase(cmd, "/" \o w)

WatchModeFollowsLastCommand ==
    /\ watchMode <=> (history = <<>> \/ IsWatchCommand(history[Len(history)]))
    /\ \A i \in 1..Len(history) :
          history[i] # "" /\ ~AllWhiteSpace(history[i])

\* the user has left watch mode and come back with a command in capitals
BackInWatchMode ==
    /\ history = <<"/tree", "/WATCH">>
    /\ watchMode

(***************************************************************************)
(* C31: the pipeline never removes a watch: no step takes a directory out  *)
(* of the set of watches, and the step that reads a removed or renamed     *)
(* notification, of a watched directory too, leaves the set as it is.      *)
(***************************************************************************)
ReadsRemoval ==
    /\ pc = "select"
    /\ osq # <<>>
    /\ Len(handled') = Len(handled) + 1
    /\ Head(osq).Op \in {{"Remove"}, {"Rename"}}

NeverUnwatches ==
    [][/\ watches \subseteq watches'
       /\ ReadsRemoval => watches' = watches]_vars

\* the pipeline has read the creation of the directory sub, then its
\* removal, and sub still has its watch
RemovedDirStillWatched ==
    /\ Len(handled) = 2
    /\ handled[1].n = [Name |-> "/w/sub", Op |-> {"Create"}, id |-> 1]
    /\ handled[2].n = [Name |-> "/w/sub", Op |-> {"Remove"}, id |-> 2]
    /\ "/w/sub" \in watches

(***************************************************************************)
(* C34: no directory that the path filter excludes ever has a watch        *)
(* registered by the pipeline: no watched path has the base name           *)
(* node_modules, vendor, dist or __pycache__.                              *)
(***************************************************************************)
ExcludedDirNeverWatched ==
    \A p \in watches : Base(p) \notin IgnoredDirNames

(***************************************************************************)
(* C33: every notification of one of the kinds created, modified, removed  *)
(* or renamed whose path lies outside the .git directory and whose base    *)
(* name does not start with ".", does not end in .tmp, does not end in ~   *)
(* and does not start with # produces exactly one event, with              *)
(* is_git_operation false and the kind created, modified, deleted or       *)
(* renamed that matches the notification.                                  *)
(***************************************************************************)
PlainName(name) ==
    /\ ~HasPrefix(name, ".")
    /\ ~HasSuffix(name, ".tmp")
    /\ ~HasSuffix(name, "~")
    /\ ~HasPrefix(name, "#")

KindOf(op) ==
    IF op = {"Create"} THEN "created"
    ELSE IF op = {"Write"} THEN "modified"
    ELSE IF op = {"Remove"} THEN "deleted"
    ELSE "renamed"

PlainChangeGivesOneEvent ==
    \A i \in 1..Len(handled) :
        (/\ handled[i].n.Op \in {{"Create"}, {"Write"}, {"Remove"}, {"Rename"}}
         /\ ~InMetadataDir(handled[i].n.Name)
         /\ PlainName(Base(handled[i].n.Name)))
            => /\ Len(handled[i].out) = 1
               /\ ~handled[i].out[1].IsGitOp
               /\ handled[i].out[1].Operation = KindOf(handled[i].n.Op)

(***************************************************************************)
(* C35: after New succeeds on an existing root directory whose watch       *)
(* registration does not fail, the root itself has a watch and WatchCount  *)
(* is at least 1, whatever the name of the root directory.                 *)
(***************************************************************************)
RootAlwaysWatched ==
    (/\ fnOut # <<>>
     /\ fnOut[1].ok
     /\ fs[fnArg.root].kind = "dir"
     /\ fnArg.root \notin fnArg.unwatchable)
        => /\ fnArg.root \in watches
           /\ fnOut[1].WatchCount >= 1

(***************************************************************************)
(* C36: at any time at most one listener command of the UI is waiting to   *)
(* receive from the Events channel.                                        *)
(***************************************************************************)
AtMostOneListener == listeners <= 1

(***************************************************************************)
(* C37: Stop returns when it is called on a watcher whose pipeline task is *)
(* not running.  Once the task has ended it never runs again and the send  *)
(* of Stop has no receiver, so the claim is that Stop is never at its send *)
(* with the task not running.                                              *)
(***************************************************************************)
StopReturnsWithoutTask ==
    ~(uiPc = "stopping" /\ pc \in {"new", "exited"})

(***************************************************************************)
(* C38: after Stop has returned the pipeline publishes nothing more: from  *)
(* then on no step sends an event on Events or an error on Errors or adds  *)
(* a watch, and nothing is left waiting at a send, whatever notifications  *)
(* and errors the primitive still holds.                                   *)
(***************************************************************************)
StopReturned == uiPc = "quit"

SilentStep ==
    /\ PublishedSeq' = PublishedSeq
    /\ errors' = errors
    /\ watches' = watches
    /\ pending' = <<>> /\ errPending' = <<>>

SilentAfterStop == [][StopReturned => SilentStep]_vars

\* Stop has returned while the primitive still held a notification the
\* pipeline had not read
StoppedWithUnread == StopReturned /\ osq # <<>>

(***************************************************************************)
(* C40: in every reachable UI state the git-animation counter is between 0 *)
(* and 50 and is 0 when no animation is active; the animation is the       *)
(* operation of the newest event with a git operation and the counter the  *)
(* number of ticks since that event, for the 50 first ticks after it, and  *)
(* from the 51st tick on there is no animation.                            *)
(***************************************************************************)
GitEntries ==
    {i \in 1..Len(feed) : feed[i].Event.IsGitOp /\ feed[i].Event.GitOp # ""}

NewestGitEntry == feed[CHOOSE i \in GitEntries : \A j \in GitEntries : i <= j]

AnimationFollowsNewestGitEvent ==
    /\ gitAnimTick \in 0..50
    /\ gitAnimation = "" => gitAnimTick = 0
    /\ IF GitEntries = {} \/ NewestGitEntry.Age >= 51
       THEN gitAnimation = ""
       ELSE /\ gitAnimation = NewestGitEntry.Event.GitOp
            /\ gitAnimTick = NewestGitEntry.Age

\* a fetch came while the animation of a commit ran, and the 51st tick
\* after the fetch has just cleared the animation
SecondAnimationEnded ==
    /\ Len(feed) = 2
    /\ feed[2].Event.GitOp = "commit"
    /\ feed[1].Event.GitOp = "fetch"
    /\ feed[1].Age = 51
    /\ feed[2].Age - feed[1].Age \in 1..50
    /\ gitAnimation = ""

(***************************************************************************)
(* C32: Up and Down cycle through the history followed by the nine default *)
(* commands, with wrap-around, and the index used to pick the command is   *)
(* always within that list: no key leads to an out-of-range access, the    *)
(* index is -1 (nothing picked yet) or a position of the list, and a step  *)
(* that moves the index without executing a command moves it one down (Up) *)
(* or one up (Down), wrapping at the ends, and puts the command at the new *)
(* index into the input line.                                              *)
(***************************************************************************)
AllCommands == history \o defaultCommands

IndexInRange ==
    /\ uiPc # "panic"
    /\ Len(AllCommands) = Len(history) + 9
    /\ historyIndex \in -1..(Len(AllCommands) - 1)

MovesIndex == historyIndex' # historyIndex /\ history' = history

CyclesWithWrap ==
    /\ historyIndex' \in 0..(Len(AllCommands) - 1)
    /\ inputValue' = AllCommands[historyIndex' + 1]
    /\ \/ historyIndex > 0 /\ historyIndex' = historyIndex - 1
       \/ historyIndex <= 0 /\ historyIndex' = Len(AllCommands) - 1
       \/ historyIndex < Len(AllCommands) - 1 /\ historyIndex' = historyIndex + 1
       \/ historyIndex >= Len(AllCommands) - 1 /\ historyIndex' = 0

HistoryCycles == []IndexInRange /\ [][MovesIndex => CyclesWithWrap]_vars

\* Up at index 0 has wrapped to the last default command, two commands
\* being in the history
WrappedToLast ==
    /\ Len(history) = 2
    /\ historyIndex = Len(AllCommands) - 1
    /\ inputValue = "/help"

(***************************************************************************)
(* C39: with a nil watcher the UI still runs: Init starts no pipeline, no  *)
(* listener command is ever issued (on Init, on ticks or after events),    *)
(* quitting does not call Stop and goes straight to the end of the         *)
(* program, and the UI never fails on the nil watcher.                     *)
(***************************************************************************)
RunsWithoutWatcher ==
    ~hasWatcher =>
        /\ pc = "new"
        /\ listeners = 0 /\ msgs = {}
        /\ uiPc \in {"new", "run", "quit"}
        /\ ~osClosed

\* without a watcher the UI has executed a command and has quit
QuitWithoutWatcher == ~hasWatcher /\ uiPc = "quit" /\ history # <<>>

====
